---- MODULE Spec2Model ----
(***************************************************************************)
(* Model of abanico/clients.py: EventualResult, RoutingPool and            *)
(* RoutingClient.  One RoutingClient is shared by a few threads; every     *)
(* Python statement that touches shared state is one step of the thread    *)
(* that runs it.  The router, the per-host connection pools, the sockets   *)
(* and the server are the environment.                                     *)
(***************************************************************************)
EXTENDS Integers, Sequences, FiniteSets, TLC

\* ---------------------------------------------------------------- bounds
MaxCmds == 3         \* commands dispatched in one run
MaxConns == 3        \* connections the per-host pools ever create
MaxTimeout == 1      \* largest timeout budget given to wait_for_outstanding
MaxLimit == 2        \* largest max_concurrency a client is built with
MaxSharedCmds == 2   \* commands dispatched in one run of several threads

None == 0            \* Python's None, for references and values
NoLimit == 0         \* max_concurrency=None
NoTimeout == -1      \* timeout=None
EmptyArgs == 0       \* execute_command(name) with no routing arguments

Threads == {1, 2}    \* threads calling into the one client
Cmds == 1..MaxCmds
Conns == 1..MaxConns
Hosts == {1, 2}
Keys == {1, 2, 3}    \* key 3 is a signature the router cannot place

VARIABLES
    max_concurrency,    \* RoutingClient.max_concurrency
    current_requests,   \* RoutingClient.current_requests (a list)
    routing_lock,       \* owner of RoutingClient._routing_lock, or None
    er_connection,      \* EventualResult.connection
    er_value,           \* EventualResult.value
    er_result_ready,    \* EventualResult.result_ready
    life,               \* history: "new", "pending", "completed", "cancelled"
    sock,               \* Connection._sock: "none", "open" or "broken"
    wire,               \* commands written to a connection, not yet answered
    inbox,              \* replies that reached a connection, not yet read
    creating_pool,      \* Connection.__creating_pool (weakref to a pool)
    available,          \* free list of each per-host pool
    pool_alive,         \* is the per-host pool object still there
    client_alive,       \* is the RoutingClient object still there
    route,              \* the router's current key -> host map
    nextCmd,            \* next command (and EventualResult) identity
    nextConn,           \* next connection a pool creates
    th                  \* per thread: position and local variables

shared == <<max_concurrency, current_requests, routing_lock, er_connection,
            er_value, er_result_ready, life, sock, wire, inbox, creating_pool,
            available, pool_alive, client_alive, route, nextCmd, nextConn>>
vars == <<max_concurrency, current_requests, routing_lock, er_connection,
          er_value, er_result_ready, life, sock, wire, inbox, creating_pool,
          available, pool_alive, client_alive, route, nextCmd, nextConn, th>>

\* -------------------------------------------------------------- helpers
\* a removal that drops the oldest entry, whatever was asked for
ListDropHead(s, x) == IF s = <<>> THEN <<>> ELSE Tail(s)

\* list.remove(x): drops the first occurrence, ValueError when absent
RECURSIVE ListRemove(_, _)
ListRemove(s, x) ==
    IF s = <<>> THEN <<>>
    ELSE IF Head(s) = x THEN Tail(s)
    ELSE <<Head(s)>> \o ListRemove(Tail(s), x)

InList(s, x) == \E i \in 1..Len(s) : s[i] = x

RECURSIVE ListFilter(_, _)
ListFilter(s, keep) ==
    IF s = <<>> THEN <<>>
    ELSE IF Head(s) \in keep THEN <<Head(s)>> \o ListFilter(Tail(s), keep)
    ELSE ListFilter(Tail(s), keep)

\* an idle thread: no call in progress.  The fields after res are history:
\* key, the routing argument of execute_command; sends, the send_command
\* calls made; why, what the except clause caught ("send" or "read");
\* waited, the throttle found the list at the ceiling; snap, the list when
\* cancel_outstanding_requests was called; and for the result cur a call
\* works on: was, its life when the call starts; old, its value and held,
\* its connection at that moment; eff, what the call has done to it
Idle ==
    [pc |-> "idle", op |-> "none", er |-> None, conn |-> None, cur |-> None,
     ready |-> <<>>, attempt |-> 0, err |-> "none", val |-> None, idx |-> 0,
     remaining |-> NoTimeout, res |-> "none",
     key |-> None, sends |-> 0, why |-> "none", waited |-> FALSE,
     snap |-> <<>>, was |-> "none", old |-> None, held |-> None, eff |-> {}]

\* the call of a thread ends: res is "ok" or the exception that left it
Finish(r, res, val) == [r EXCEPT !.pc = "done", !.res = res, !.val = val]

\* ------------------------------------------------------------ initial state
\* RoutingClient.__init__: no request outstanding, the lock free.  The
\* cluster starts with key 1 on host 1 and key 2 on host 2, both pools empty.
Init ==
    /\ max_concurrency \in {NoLimit} \cup (1..MaxLimit)
    /\ current_requests = <<>>
    /\ routing_lock = None
    /\ er_connection = [e \in Cmds |-> None]
    /\ er_value = [e \in Cmds |-> None]
    /\ er_result_ready = [e \in Cmds |-> FALSE]
    /\ life = [e \in Cmds |-> "new"]
    /\ sock = [c \in Conns |-> "none"]
    /\ wire = [c \in Conns |-> <<>>]
    /\ inbox = [c \in Conns |-> <<>>]
    /\ creating_pool = [c \in Conns |-> None]
    /\ available = [h \in Hosts |-> {}]
    /\ pool_alive = [h \in Hosts |-> TRUE]
    /\ client_alive = TRUE
    /\ route = [k \in Keys |-> IF k \in Hosts THEN k ELSE None]
    /\ nextCmd = 1
    /\ nextConn = 1
    /\ th = [t \in Threads |-> Idle]

\* ------------------------------------------------- connections and pools
\* a router that places what it cannot place on host 1
RouterFallsBack(args) ==
    IF args = EmptyArgs THEN 1
    ELSE IF route[args] = None THEN 1
    ELSE route[args]

\* router.get_host(command_name, command_args); an empty argument tuple
\* carries no key, so the router has nothing to place
RouterGetHost(args) == IF args = EmptyArgs THEN None ELSE route[args]

\* RoutingPool.get_connection up to the host lookup: the exception it
\* raises, or "ok"
GetConnectionOutcome(hasArgs, args) ==
    IF ~hasArgs THEN "type"
    ELSE IF RouterGetHost(args) = None THEN "routing"
    ELSE "ok"

\* real_pool.get_connection: a free connection if there is one, else a new one
PoolCandidates(h) ==
    IF available[h] # {} THEN available[h]
    ELSE IF nextConn <= MaxConns THEN {nextConn}
    ELSE {}

\* a release that asks the router where key 1 lives now
PoolReleaseByRoute(c) ==
    IF c = None THEN available
    ELSE [available EXCEPT ![route[1]] = @ \cup {c}]

\* RoutingPool.release(connection): back to the pool that created the
\* connection; nothing when the reference or the pool is gone
PoolRelease(c) ==
    IF c = None THEN available
    ELSE IF creating_pool[c] = None THEN available
    ELSE IF ~pool_alive[creating_pool[c]] THEN available
    ELSE [available EXCEPT ![creating_pool[c]] = @ \cup {c}]

\* history: a call handed the connection c to RoutingPool.release
Released(r, c) == IF c = None THEN r ELSE [r EXCEPT !.eff = @ \cup {"release"}]

\* lines 31-36, the client property raises RuntimeError: the weak reference
\* to the client is dead
ClientRaises == ~client_alive

\* EventualResult.fileno raises ValueError
FilenoRaises(e) ==
    \/ er_connection[e] = None
    \/ sock[er_connection[e]] = "none"

\* select that never reports a member
SelectNothing(rlist) == <<>>

\* select.select(rlist, [], [], timeout)[0]: the members whose socket has a
\* reply to read or has failed, in list order
Readable(e) ==
    /\ er_connection[e] # None
    /\ \/ sock[er_connection[e]] = "broken"
       \/ sock[er_connection[e]] = "open" /\ inbox[er_connection[e]] # <<>>
SelectReady(rlist) == ListFilter(rlist, {e \in Cmds : Readable(e)})

\* Connection.disconnect(): the socket is closed, what was in flight is lost
Disconnected(f, c) == [f EXCEPT ![c] = <<>>]

\* ------------------------------------------------------- execute_command
\* line 135: the connection is acquired, or the acquisition raises
ExecuteCommand(t, args) ==
    /\ th[t].pc = "idle"
    /\ IF GetConnectionOutcome(TRUE, args) # "ok"
       THEN /\ th' = [th EXCEPT ![t] =
                        Finish([Idle EXCEPT !.op = "exec", !.key = args],
                               GetConnectionOutcome(TRUE, args), None)]
            /\ UNCHANGED shared
       ELSE /\ nextCmd <= MaxCmds
            /\ \E c \in PoolCandidates(RouterGetHost(args)) :
                 /\ available' = [available EXCEPT
                                    ![RouterGetHost(args)] = @ \ {c}]
                 /\ creating_pool' = [creating_pool EXCEPT
                                        ![c] = RouterGetHost(args)]
                 /\ nextConn' = IF c = nextConn THEN nextConn + 1 ELSE nextConn
                 /\ th' = [th EXCEPT ![t] =
                             [Idle EXCEPT !.pc = "send", !.op = "exec",
                                          !.er = nextCmd, !.conn = c,
                                          !.attempt = 1, !.key = args]]
            /\ nextCmd' = nextCmd + 1
            /\ UNCHANGED <<max_concurrency, current_requests, routing_lock,
                           er_connection, er_value, er_result_ready, life,
                           sock, wire, inbox, pool_alive, client_alive,
                           route>>

\* lines 138 and 142, connection.send_command succeeds: the connection is
\* (re)connected if need be and the command is on its way
SendOk(t) ==
    /\ th[t].pc = "send"
    /\ sock[th[t].conn] # "broken"
    /\ sock' = [sock EXCEPT ![th[t].conn] = "open"]
    /\ wire' = [wire EXCEPT ![th[t].conn] = Append(@, th[t].er)]
    /\ th' = [th EXCEPT ![t].pc = "admit", ![t].sends = @ + 1]
    /\ UNCHANGED <<max_concurrency, current_requests, routing_lock,
                   er_connection, er_value, er_result_ready, life, inbox,
                   creating_pool, available, pool_alive, client_alive, route,
                   nextCmd, nextConn>>

\* an except clause that is entered again from its own resend
RetryAgain(r) == [r EXCEPT !.pc = "retry"]

\* where a ConnectionError raised inside the try block of execute_command
\* goes: to the except clause on the first attempt, out of the call after it
AfterConnectionError(r) ==
    IF r.attempt = 1 THEN [r EXCEPT !.pc = "retry"]
    ELSE Finish(r, "connection", None)

\* lines 138 and 142, connection.send_command raises ConnectionError (the
\* connection drops itself first)
SendFails(t) ==
    /\ th[t].pc = "send"
    /\ sock' = [sock EXCEPT ![th[t].conn] = "none"]
    /\ wire' = Disconnected(wire, th[t].conn)
    /\ inbox' = Disconnected(inbox, th[t].conn)
    /\ th' = [th EXCEPT ![t] =
                AfterConnectionError(
                    [th[t] EXCEPT !.sends = @ + 1,
                                  !.why = IF @ = "none" THEN "send" ELSE @])]
    /\ UNCHANGED <<max_concurrency, current_requests, routing_lock,
                   er_connection, er_value, er_result_ready, life,
                   creating_pool, available, pool_alive, client_alive, route,
                   nextCmd, nextConn>>

\* line 141, the except clause: connection.disconnect(), then the resend
Retry(t) ==
    /\ th[t].pc = "retry"
    /\ sock' = [sock EXCEPT ![th[t].conn] = "none"]
    /\ wire' = Disconnected(wire, th[t].conn)
    /\ inbox' = Disconnected(inbox, th[t].conn)
    /\ th' = [th EXCEPT ![t].pc = "send", ![t].attempt = 2,
                        ![t].err = "none", ![t].ready = <<>>,
                        ![t].cur = None, ![t].was = "none", ![t].eff = {},
                        ![t].old = None, ![t].held = None]
    /\ UNCHANGED <<max_concurrency, current_requests, routing_lock,
                   er_connection, er_value, er_result_ready, life,
                   creating_pool, available, pool_alive, client_alive, route,
                   nextCmd, nextConn>>

\* wait_for_result, line 53, on entry: with the flag set the cached value
\* is returned at once, otherwise the reply is read
EnterWait(r, e) ==
    [r EXCEPT !.cur = e, !.err = "none", !.was = life[e], !.eff = {},
              !.old = er_value[e], !.held = er_connection[e],
              !.pc = IF er_result_ready[e] THEN "w_return" ELSE "w_read"]

\* lines 153-155 and 179-180, the for loop over the results select reported:
\* wait_for_result is called on the next one; after the last one the
\* enclosing while loop tests its condition again
NextReady(r) ==
    IF r.ready = <<>>
    THEN [r EXCEPT !.pc = IF r.op = "exec" THEN "throttle" ELSE "wa_check"]
    ELSE EnterWait([r EXCEPT !.ready = Tail(r.ready)], Head(r.ready))

\* ------------------------------------------------ eventual_parse_response
\* lines 146-147: the EventualResult is built and the lock is taken
EventualParseResponse(t) ==
    /\ th[t].pc = "admit"
    /\ routing_lock = None
    /\ routing_lock' = t
    /\ er_connection' = [er_connection EXCEPT ![th[t].er] = th[t].conn]
    /\ er_value' = [er_value EXCEPT ![th[t].er] = None]
    /\ er_result_ready' = [er_result_ready EXCEPT ![th[t].er] = FALSE]
    /\ th' = [th EXCEPT ![t].pc = "throttle"]
    /\ UNCHANGED <<max_concurrency, current_requests, life, sock, wire, inbox,
                   creating_pool, available, pool_alive, client_alive, route,
                   nextCmd, nextConn>>

\* the loop condition with > for >=: one request too many gets in
AtCeilingOffByOne ==
    /\ max_concurrency # NoLimit
    /\ Len(current_requests) > max_concurrency

\* line 151-152: the loop condition of the throttle
AtCeiling ==
    /\ max_concurrency # NoLimit
    /\ Len(current_requests) >= max_concurrency

\* line 157-158: below the ceiling the result is appended, the lock is
\* released and the result goes back to the caller
Admit(t) ==
    /\ th[t].pc = "throttle"
    /\ ~AtCeiling
    /\ current_requests' = Append(current_requests, th[t].er)
    /\ routing_lock' = None
    /\ life' = [life EXCEPT ![th[t].er] = "pending"]
    /\ th' = [th EXCEPT ![t] = Finish(th[t], "ok", None)]
    /\ UNCHANGED <<max_concurrency, er_connection, er_value, er_result_ready,
                   sock, wire, inbox, creating_pool, available, pool_alive,
                   client_alive, route, nextCmd, nextConn>>

\* lines 153-154: at the ceiling, select over a copy of the list, for at most
\* a second; fileno() of a member without a socket raises ValueError, which
\* leaves the with block and execute_command
ThrottleSelect(t) ==
    /\ th[t].pc = "throttle"
    /\ AtCeiling
    /\ IF \E i \in 1..Len(current_requests) : FilenoRaises(current_requests[i])
       THEN /\ routing_lock' = None
            /\ th' = [th EXCEPT ![t] = Finish(th[t], "closed", None)]
       ELSE /\ routing_lock' = routing_lock
            /\ th' = [th EXCEPT ![t] =
                        NextReady([th[t] EXCEPT
                                     !.waited = TRUE,
                                     !.ready = SelectReady(current_requests)])]
    /\ UNCHANGED <<max_concurrency, current_requests, er_connection, er_value,
                   er_result_ready, life, sock, wire, inbox, creating_pool,
                   available, pool_alive, client_alive, route, nextCmd,
                   nextConn>>

\* ---------------------------------------- EventualResult.wait_for_result
\* a direct call by a caller that holds the result
WaitForResult(t, e) ==
    /\ th[t].pc = "idle"
    /\ life[e] # "new"
    /\ th' = [th EXCEPT ![t] = EnterWait([Idle EXCEPT !.op = "await"], e)]
    /\ UNCHANGED shared

\* history: the result is completed by the first read made for it
Completed(e) ==
    IF life[e] = "pending" THEN [life EXCEPT ![e] = "completed"] ELSE life

\* lines 55-56, parse_response returns: the next reply on the connection is
\* taken off it and stored as the value
ReadReply(t) ==
    /\ th[t].pc = "w_read"
    /\ ~ClientRaises
    /\ er_connection[th[t].cur] # None
    /\ sock[er_connection[th[t].cur]] = "open"
    /\ inbox[er_connection[th[t].cur]] # <<>>
    /\ er_value' = [er_value EXCEPT
                      ![th[t].cur] = Head(inbox[er_connection[th[t].cur]])]
    /\ inbox' = [inbox EXCEPT ![er_connection[th[t].cur]] = Tail(@)]
    /\ life' = Completed(th[t].cur)
    /\ th' = [th EXCEPT ![t].pc = "w_notify", ![t].err = "none",
                        ![t].eff = @ \cup {"read"}]
    /\ UNCHANGED <<max_concurrency, current_requests, routing_lock,
                   er_connection, er_result_ready, sock, wire, creating_pool,
                   available, pool_alive, client_alive, route, nextCmd,
                   nextConn>>

\* the exceptions parse_response can raise on a connection (or None): a
\* failed socket gives ConnectionError; a connection without a socket gives
\* ConnectionError or AttributeError, depending on the reply parser in use;
\* None has no read_response
ReadErrors(c) ==
    IF c = None THEN {"attr"}
    ELSE IF sock[c] = "broken" THEN {"connection"}
    ELSE IF sock[c] = "none" THEN {"connection", "attr"}
    ELSE {}

\* lines 55-56, parse_response raises: the value is not assigned; a
\* connection that failed while being read drops itself
ReadRaises(t) ==
    /\ th[t].pc = "w_read"
    /\ ~ClientRaises
    /\ \E x \in ReadErrors(er_connection[th[t].cur]) :
         th' = [th EXCEPT ![t].pc = "w_notify", ![t].err = x,
                          ![t].eff = IF er_connection[th[t].cur] = None
                                     THEN @ ELSE @ \cup {"read"}]
    /\ life' = Completed(th[t].cur)
    /\ sock' = IF er_connection[th[t].cur] = None THEN sock
               ELSE [sock EXCEPT ![er_connection[th[t].cur]] = "none"]
    /\ wire' = IF er_connection[th[t].cur] = None THEN wire
               ELSE Disconnected(wire, er_connection[th[t].cur])
    /\ inbox' = IF er_connection[th[t].cur] = None THEN inbox
                ELSE Disconnected(inbox, er_connection[th[t].cur])
    /\ UNCHANGED <<max_concurrency, current_requests, routing_lock,
                   er_connection, er_value, er_result_ready, creating_pool,
                   available, pool_alive, client_alive, route, nextCmd,
                   nextConn>>

\* lines 55 and 58 with the client gone: self.client raises RuntimeError
\* before parse_response is called, and again in the finally clause before
\* notify_request_done and release are; the call ends with it
ReadClientGone(t) ==
    /\ th[t].pc = "w_read"
    /\ ClientRaises
    /\ th' = [th EXCEPT ![t] = Finish(th[t], "gone", None)]
    /\ UNCHANGED shared

\* a notify_request_done that takes the lock and leaves the list alone
NotifyKeepsEntry(t, e) ==
    /\ routing_lock \in {None, t}
    /\ current_requests' = current_requests

\* lines 160-165, notify_request_done: under the (reentrant) lock the result
\* is removed from the list if it is there
NotifyRequestDone(t, e) ==
    /\ routing_lock \in {None, t}
    /\ current_requests' = ListRemove(current_requests, e)

\* line 58, in the finally clause
WaitNotify(t) ==
    /\ th[t].pc = "w_notify"
    /\ NotifyRequestDone(t, th[t].cur)
    /\ th' = [th EXCEPT ![t].pc = "w_return"]
    /\ UNCHANGED <<max_concurrency, routing_lock, er_connection, er_value,
                   er_result_ready, life, sock, wire, inbox, creating_pool,
                   available, pool_alive, client_alive, route, nextCmd,
                   nextConn>>

\* where wait_for_result goes back to: its direct caller (line 60), the for
\* loop of the throttle (line 155, inside the with block and the try block
\* of execute_command) or the one of wait_for_outstanding_responses (180)
AfterWait(r, value) ==
    IF r.op = "await" THEN
        IF r.err = "none" THEN Finish(r, "ok", value)
        ELSE Finish(r, r.err, None)
    ELSE IF r.err = "none" THEN NextReady(r)
    ELSE IF r.op = "exec" /\ r.err = "connection"
    THEN AfterConnectionError(
             [r EXCEPT !.why = IF @ = "none" THEN "read" ELSE @])
    ELSE Finish(r, r.err, None)

\* lines 59-60: in the finally clause the connection the result holds goes
\* to RoutingPool.release (not when the flag was set on entry); then the
\* value is returned or the exception goes on, and one that leaves the with
\* block of eventual_parse_response releases the lock
WaitRelease(t) ==
    /\ th[t].pc = "w_return"
    /\ available' = IF er_result_ready[th[t].cur] THEN available
                    ELSE PoolRelease(er_connection[th[t].cur])
    /\ th' = [th EXCEPT ![t] =
                AfterWait(IF er_result_ready[th[t].cur] THEN th[t]
                          ELSE Released(th[t], er_connection[th[t].cur]),
                          er_value[th[t].cur])]
    /\ routing_lock' = IF th[t].op = "exec" /\ th[t].err # "none"
                       THEN None ELSE routing_lock
    /\ UNCHANGED <<max_concurrency, current_requests, er_connection, er_value,
                   er_result_ready, life, sock, wire, inbox, creating_pool,
                   pool_alive, client_alive, route, nextCmd, nextConn>>

\* ------------------------------------------------- EventualResult.cancel
\* where cancel goes back to: its direct caller, or the for loop of
\* cancel_outstanding_requests (line 184), which an exception leaves
AfterCancel(r, err) ==
    IF r.op = "cancel" \/ err # "none"
    THEN Finish(r, IF err = "none" THEN "ok" ELSE err, None)
    ELSE [r EXCEPT !.pc = "ca_next"]

\* lines 45-46, on entry: nothing to do for a result that is ready or has
\* no connection
EnterCancel(r, e) ==
    IF er_result_ready[e] \/ er_connection[e] = None
    THEN AfterCancel([r EXCEPT !.cur = e, !.was = life[e], !.eff = {},
                               !.old = er_value[e],
                               !.held = er_connection[e]],
                     "none")
    ELSE [r EXCEPT !.pc = "c_disconnect", !.cur = e, !.was = life[e],
                   !.eff = {}, !.old = er_value[e],
                   !.held = er_connection[e]]

\* a direct call by a caller that holds the result
Cancel(t, e) ==
    /\ th[t].pc = "idle"
    /\ life[e] # "new"
    /\ th' = [th EXCEPT ![t] = EnterCancel([Idle EXCEPT !.op = "cancel"], e)]
    /\ UNCHANGED shared

\* history: the result is cancelled by the first disconnect made for it
Cancelled(e) ==
    IF life[e] = "pending" THEN [life EXCEPT ![e] = "cancelled"] ELSE life

\* line 47: self.connection.disconnect(); AttributeError if the connection
\* was cleared since the check
CancelDisconnect(t) ==
    /\ th[t].pc = "c_disconnect"
    /\ IF er_connection[th[t].cur] = None
       THEN /\ th' = [th EXCEPT ![t] = AfterCancel(th[t], "attr")]
            /\ UNCHANGED <<sock, wire, inbox, life>>
       ELSE /\ sock' = [sock EXCEPT ![er_connection[th[t].cur]] = "none"]
            /\ wire' = Disconnected(wire, er_connection[th[t].cur])
            /\ inbox' = Disconnected(inbox, er_connection[th[t].cur])
            /\ life' = Cancelled(th[t].cur)
            /\ th' = [th EXCEPT ![t].pc = "c_release",
                                ![t].eff = @ \cup {"disconnect"}]
    /\ UNCHANGED <<max_concurrency, current_requests, routing_lock,
                   er_connection, er_value, er_result_ready, creating_pool,
                   available, pool_alive, client_alive, route, nextCmd,
                   nextConn>>

\* line 48: the connection goes to RoutingPool.release
CancelRelease(t) ==
    /\ th[t].pc = "c_release"
    /\ ~ClientRaises
    /\ available' = PoolRelease(er_connection[th[t].cur])
    /\ th' = [th EXCEPT ![t] =
                Released([th[t] EXCEPT !.pc = "c_clear"],
                         er_connection[th[t].cur])]
    /\ UNCHANGED <<max_concurrency, current_requests, routing_lock,
                   er_connection, er_value, er_result_ready, life, sock, wire,
                   inbox, creating_pool, pool_alive, client_alive, route,
                   nextCmd, nextConn>>

\* line 48 with the client gone: self.client raises RuntimeError, after the
\* disconnect of line 47, and the call ends with it
CancelClientGone(t) ==
    /\ th[t].pc = "c_release"
    /\ ClientRaises
    /\ th' = [th EXCEPT ![t] = AfterCancel(th[t], "gone")]
    /\ UNCHANGED shared

\* line 49: self.connection = None
CancelClear(t) ==
    /\ th[t].pc = "c_clear"
    /\ er_connection' = [er_connection EXCEPT ![th[t].cur] = None]
    /\ th' = [th EXCEPT ![t].pc = "c_notify"]
    /\ UNCHANGED <<max_concurrency, current_requests, routing_lock, er_value,
                   er_result_ready, life, sock, wire, inbox, creating_pool,
                   available, pool_alive, client_alive, route, nextCmd,
                   nextConn>>

\* line 50: the client is told, then cancel returns
CancelNotify(t) ==
    /\ th[t].pc = "c_notify"
    /\ NotifyRequestDone(t, th[t].cur)
    /\ th' = [th EXCEPT ![t] = AfterCancel(th[t], "none")]
    /\ UNCHANGED <<max_concurrency, routing_lock, er_connection, er_value,
                   er_result_ready, life, sock, wire, inbox, creating_pool,
                   available, pool_alive, client_alive, route, nextCmd,
                   nextConn>>

\* --------------------------------------------- cancel_outstanding_requests
\* line 184-185: the list iterator yields the element at its index, if the
\* list (as it is now) has one, and moves on by one; cancel is called on
\* what it yields
IterNext(r) ==
    IF r.idx < Len(current_requests)
    THEN EnterCancel([r EXCEPT !.idx = @ + 1], current_requests[r.idx + 1])
    ELSE Finish(r, "ok", None)

\* line 184: the for loop starts an iterator over the list itself; the
\* first element is asked for in the next step
CancelOutstandingRequests(t) ==
    /\ th[t].pc = "idle"
    /\ th' = [th EXCEPT ![t] =
                [Idle EXCEPT !.pc = "ca_next", !.op = "cancelall",
                             !.snap = current_requests]]
    /\ UNCHANGED shared

\* line 184, after a cancel has returned: the next turn of the loop
CancelOutstandingNext(t) ==
    /\ th[t].pc = "ca_next"
    /\ th' = [th EXCEPT ![t] = IterNext(th[t])]
    /\ UNCHANGED shared

\* ------------------------------------------ wait_for_outstanding_responses
\* line 171: remaining = timeout
WaitForOutstandingResponses(t, timeout) ==
    /\ th[t].pc = "idle"
    /\ th' = [th EXCEPT ![t] =
                [Idle EXCEPT !.pc = "wa_check", !.op = "waitall",
                             !.remaining = timeout]]
    /\ UNCHANGED shared

\* a loop condition that takes an absent timeout for a spent one
KeepWaitingWithBudget(r) ==
    /\ current_requests # <<>>
    /\ r.remaining # NoTimeout
    /\ r.remaining > 0

\* line 173-174: the loop condition
KeepWaiting(r) ==
    /\ current_requests # <<>>
    /\ r.remaining = NoTimeout \/ r.remaining > 0

\* the loop ends and the call returns
WaitOutstandingDone(t) ==
    /\ th[t].pc = "wa_check"
    /\ ~KeepWaiting(th[t])
    /\ th' = [th EXCEPT ![t] = Finish(th[t], "ok", None)]
    /\ UNCHANGED shared

\* lines 175-178: select over a copy of the list for what remains of the
\* timeout, which is then reduced by the time select took.  select returns
\* when a member is readable, or when the timeout has passed; fileno() of a
\* member without a socket raises ValueError
WaitOutstandingSelect(t) ==
    /\ th[t].pc = "wa_check"
    /\ KeepWaiting(th[t])
    /\ IF \E i \in 1..Len(current_requests) : FilenoRaises(current_requests[i])
       THEN th' = [th EXCEPT ![t] = Finish(th[t], "closed", None)]
       ELSE IF SelectReady(current_requests) # <<>>
       THEN \E spent \in 0..(IF th[t].remaining = NoTimeout THEN 0
                             ELSE th[t].remaining) :
              th' = [th EXCEPT ![t] =
                       NextReady([th[t] EXCEPT
                                    !.ready = SelectReady(current_requests),
                                    !.remaining = IF @ = NoTimeout THEN @
                                                  ELSE @ - spent])]
       ELSE /\ th[t].remaining # NoTimeout
            /\ th' = [th EXCEPT ![t].remaining = 0]
    /\ UNCHANGED shared

\* the caller takes the outcome of its call and is free for the next one
Return(t) ==
    /\ th[t].pc = "done"
    /\ th' = [th EXCEPT ![t] = Idle]
    /\ UNCHANGED shared

\* ------------------------------------------------------------ environment
\* the server answers the oldest command written to a connection
ReplyArrives(c) ==
    /\ sock[c] = "open"
    /\ wire[c] # <<>>
    /\ inbox' = [inbox EXCEPT ![c] = Append(@, Head(wire[c]))]
    /\ wire' = [wire EXCEPT ![c] = Tail(@)]
    /\ UNCHANGED <<max_concurrency, current_requests, routing_lock,
                   er_connection, er_value, er_result_ready, life, sock,
                   creating_pool, available, pool_alive, client_alive, route,
                   nextCmd, nextConn, th>>

\* the transport of a connection with a command in flight fails: the socket
\* becomes readable and the read raises ConnectionError
TransportFails(c) ==
    /\ sock[c] = "open"
    /\ wire[c] # <<>>
    /\ sock' = [sock EXCEPT ![c] = "broken"]
    /\ wire' = Disconnected(wire, c)
    /\ inbox' = Disconnected(inbox, c)
    /\ UNCHANGED <<max_concurrency, current_requests, routing_lock,
                   er_connection, er_value, er_result_ready, life,
                   creating_pool, available, pool_alive, client_alive, route,
                   nextCmd, nextConn, th>>

\* the topology changes: the router now places key 1 on host 2
TopologyChange ==
    /\ route[1] = 1
    /\ route' = [route EXCEPT ![1] = 2]
    /\ UNCHANGED <<max_concurrency, current_requests, routing_lock,
                   er_connection, er_value, er_result_ready, life, sock, wire,
                   inbox, creating_pool, available, pool_alive, client_alive,
                   nextCmd, nextConn, th>>

\* the pool of a host no key is placed on any more is torn down: the weak
\* references its connections hold are broken
PoolGone(h) ==
    /\ pool_alive[h]
    /\ \A k \in Keys : route[k] # h
    /\ pool_alive' = [pool_alive EXCEPT ![h] = FALSE]
    /\ available' = [available EXCEPT ![h] = {}]
    /\ UNCHANGED <<max_concurrency, current_requests, routing_lock,
                   er_connection, er_value, er_result_ready, life, sock, wire,
                   inbox, creating_pool, client_alive, route, nextCmd,
                   nextConn, th>>

\* the caller drops its last reference to the client between two calls: the
\* weak references the results hold are dead from then on
ClientGone ==
    /\ client_alive
    /\ \A t \in Threads : th[t].pc = "idle"
    /\ client_alive' = FALSE
    /\ UNCHANGED <<max_concurrency, current_requests, routing_lock,
                   er_connection, er_value, er_result_ready, life, sock, wire,
                   inbox, creating_pool, available, pool_alive, route,
                   nextCmd, nextConn, th>>

\* --------------------------------------------------------- specifications
Timeouts == {NoTimeout} \cup (0..MaxTimeout)

\* the steps that carry a call in progress on: what the code does next
Continue(t) ==
    \/ SendOk(t)
    \/ Retry(t)
    \/ EventualParseResponse(t)
    \/ Admit(t)
    \/ ThrottleSelect(t)
    \/ ReadReply(t)
    \/ ReadRaises(t)
    \/ WaitNotify(t)
    \/ WaitRelease(t)
    \/ CancelDisconnect(t)
    \/ CancelRelease(t)
    \/ CancelClear(t)
    \/ CancelNotify(t)
    \/ CancelOutstandingNext(t)
    \/ WaitOutstandingDone(t)
    \/ WaitOutstandingSelect(t)
    \/ Return(t)

\* Spec: several threads share the client and interleave at every step; all
\* commands go to one host, the transport does not fail
Calls(t) ==
    \/ \E args \in {1, 3} : nextCmd <= MaxSharedCmds /\ ExecuteCommand(t, args)
    \/ \E e \in Cmds : WaitForResult(t, e)
    \/ \E e \in Cmds : Cancel(t, e)
    \/ CancelOutstandingRequests(t)
    \/ WaitForOutstandingResponses(t, NoTimeout)

Next ==
    \/ \E t \in Threads : Calls(t) \/ Continue(t)
    \/ \E c \in Conns : ReplyArrives(c)

Spec == Init /\ [][Next]_vars

\* SeqSpec: one thread makes every call, in any order, against the whole
\* environment: two hosts, transport a topology change, a pool
\* torn down
SeqCalls(t) ==
    \/ \E args \in Keys \cup {EmptyArgs} : ExecuteCommand(t, args)
    \/ \E e \in Cmds : WaitForResult(t, e)
    \/ \E e \in Cmds : Cancel(t, e)
    \/ CancelOutstandingRequests(t)
    \/ \E timeout \in Timeouts : WaitForOutstandingResponses(t, timeout)

SeqNext ==
    \/ SeqCalls(1)
    \/ Continue(1)
    \/ SendFails(1)
    \/ \E c \in Conns : ReplyArrives(c)
    \/ \E c \in Conns : TransportFails(c)
    \/ TopologyChange
    \/ \E h \in Hosts : PoolGone(h)

SeqSpec == Init /\ [][SeqNext]_vars

\* LiveSpec: one thread dispatches commands to both hosts and waits for what
\* is outstanding, reading no result itself; the transport does not fail.
\* A call in progress goes on when it can (the thread is scheduled) and the
\* server answers every command it was sent.
LiveCalls(t) ==
    \/ \E args \in {1, 2} : ExecuteCommand(t, args)
    \/ \E timeout \in Timeouts : WaitForOutstandingResponses(t, timeout)

LiveContinue(t) ==
    \/ SendOk(t)
    \/ EventualParseResponse(t)
    \/ Admit(t)
    \/ ThrottleSelect(t)
    \/ ReadReply(t)
    \/ WaitNotify(t)
    \/ WaitRelease(t)
    \/ WaitOutstandingDone(t)
    \/ WaitOutstandingSelect(t)
    \/ Return(t)

LiveNext ==
    \/ LiveCalls(1)
    \/ LiveContinue(1)
    \/ \E c \in Conns : ReplyArrives(c)

LiveSpec ==
    /\ Init
    /\ [][LiveNext]_vars
    /\ WF_vars(LiveContinue(1))
    /\ \A c \in Conns : WF_vars(ReplyArrives(c))

\* GoneSpec: one thread dispatches, reads and cancels results; at some
\* moment between two calls the client goes away, after which only the
\* results can be used.
GoneCalls(t) ==
    \/ \E args \in {1, 2} : client_alive /\ ExecuteCommand(t, args)
    \/ \E e \in Cmds : WaitForResult(t, e)
    \/ \E e \in Cmds : Cancel(t, e)

GoneContinue(t) ==
    \/ SendOk(t)
    \/ EventualParseResponse(t)
    \/ Admit(t)
    \/ ThrottleSelect(t)
    \/ ReadReply(t)
    \/ ReadRaises(t)
    \/ ReadClientGone(t)
    \/ WaitNotify(t)
    \/ WaitRelease(t)
    \/ CancelDisconnect(t)
    \/ CancelRelease(t)
    \/ CancelClientGone(t)
    \/ CancelClear(t)
    \/ CancelNotify(t)
    \/ Return(t)

GoneNext ==
    \/ GoneCalls(1)
    \/ GoneContinue(1)
    \/ \E c \in Conns : ReplyArrives(c)
    \/ ClientGone

GoneSpec == Init /\ [][GoneNext]_vars

\* ================================================================ claims

\* the outstanding list is within the configured ceiling
WithinCeiling ==
    max_concurrency # NoLimit => Len(current_requests) <= max_concurrency

\* C1: with max_concurrency = N the outstanding list never holds more than
\* N results, whatever the threads interleave; the list grows only by a
\* dispatch that found fewer than N results in it, which then returns with
\* its own result appended (so with N = 1 it returns into a list that holds
\* nothing else).
C1_CeilingHolds ==
    /\ WithinCeiling
    /\ [][/\ WithinCeiling'
          /\ Len(current_requests') > Len(current_requests) =>
               /\ ~AtCeiling
               /\ \E t \in Threads :
                    /\ th[t].pc = "throttle"
                    /\ th'[t].pc = "done"
                    /\ th'[t].res = "ok"
                    /\ current_requests' =
                         Append(current_requests, th[t].er)]_vars

\* C1 happens: a dispatch that had to wait at the ceiling has returned and
\* the list is full again
C1_Witness ==
    \E t \in Threads :
        /\ th[t].pc = "done"
        /\ th[t].op = "exec"
        /\ th[t].res = "ok"
        /\ th[t].waited
        /\ max_concurrency # NoLimit
        /\ Len(current_requests) = max_concurrency

\* a dispatch stands in the throttle with the list at the ceiling
Blocked(t) ==
    /\ th[t].op = "exec"
    /\ th[t].pc = "throttle"
    /\ max_concurrency # NoLimit
    /\ Len(current_requests) >= max_concurrency

\* C2: with max_concurrency = N and N results outstanding that nobody
\* reads, the next dispatch does not return while the list still holds N;
\* when it has returned, one of the earlier results has been completed and
\* taken off the list; and once the replies arrive it does return, with its
\* own result in the list.
C2_BlocksThenProceeds ==
    /\ [][\A t \in Threads : Blocked(t) => th'[t].pc # "done"]_vars
    /\ [](\A t \in Threads :
            th[t].pc = "done" /\ th[t].op = "exec" /\ th[t].waited =>
                \E e \in Cmds : /\ life[e] = "completed"
                                /\ ~InList(current_requests, e))
    /\ \A t \in Threads :
         Blocked(t) ~> /\ th[t].pc = "done"
                       /\ th[t].res = "ok"
                       /\ InList(current_requests, th[t].er)

\* C2 happens: with N = 2 the third dispatch waited and has returned
C2_Witness ==
    /\ max_concurrency = 2
    /\ th[1].pc = "done"
    /\ th[1].op = "exec"
    /\ th[1].er = 3
    /\ th[1].waited
    /\ th[1].res = "ok"

\* C3: wait_for_result is idempotent.  A wait_for_result call on a result
\* that an earlier wait_for_result already completed with a value reads
\* nothing, releases nothing, and returns that same value.
C3_AwaitIdempotent ==
    \A t \in Threads :
        (th[t].op = "await" /\ th[t].was = "completed" /\ th[t].old # None) =>
            /\ th[t].eff = {}
            /\ th[t].pc = "done" => th[t].res = "ok" /\ th[t].val = th[t].old

\* C4: when cancel_outstanding_requests returns, the outstanding list is
\* empty and every result that was outstanding at the call has been
\* cancelled: its connection is cleared, so it cannot be read again.
C4_CancelOutstandingEmpties ==
    \A t \in Threads :
        (th[t].op = "cancelall" /\ th[t].pc = "done" /\ th[t].res = "ok") =>
            /\ current_requests = <<>>
            /\ \A i \in 1..Len(th[t].snap) :
                    /\ er_connection[th[t].snap[i]] = None
                    /\ life[th[t].snap[i]] # "pending"

\* the free lists after the connection c went back to the pool that made it
\* (nothing changes when that pool is gone)
BackInCreatingPool(c) ==
    IF pool_alive[creating_pool[c]]
    THEN available' = [available EXCEPT ![creating_pool[c]] = @ \cup {c}]
    ELSE available' = available

\* C5: cancel of a pending result hands its connection back to the pool
\* that created it, wherever the router places the key now, and to no pool
\* when that pool is gone; a second cancel of the same result disconnects
\* nothing, releases nothing and leaves all state as it is.
C5_CancelReturnsToCreatingPool ==
    /\ [][\A t \in Threads :
            (/\ th[t].pc = "c_release"
             /\ th'[t].pc # "c_release"
             /\ th[t].was = "pending") =>
                /\ th[t].held # None
                /\ er_connection[th[t].cur] = th[t].held
                /\ creating_pool[th[t].held] \in Hosts
                /\ BackInCreatingPool(th[t].held)]_vars
    /\ [][\A t \in Threads :
            (/\ th[t].pc = "idle"
             /\ th'[t].op = "cancel"
             /\ life[th'[t].cur] = "cancelled") =>
                /\ th'[t].pc = "done"
                /\ th'[t].res = "ok"
                /\ th'[t].eff = {}
                /\ UNCHANGED shared]_vars

\* a pending result was cancelled after the router moved its key to the
\* other host: the connection is back in the free list of the first host
C5_Witness ==
    /\ th[1].pc = "done"
    /\ th[1].op = "cancel"
    /\ th[1].was = "pending"
    /\ th[1].res = "ok"
    /\ th[1].held # None
    /\ creating_pool[th[1].held] = 1
    /\ route[1] = 2
    /\ th[1].held \in available[1]
    /\ th[1].held \notin available[2]

\* C6: wait_for_result on a pending result, whether the read returns or
\* raises, takes the result off the outstanding list and hands its
\* connection to RoutingPool.release before the call is left.
C6_AwaitCleansUp ==
    /\ [][\A t \in Threads :
            (/\ th[t].pc = "w_return"
             /\ th'[t].pc # "w_return"
             /\ th[t].was = "pending") =>
                /\ th[t].held # None
                /\ er_connection[th[t].cur] = th[t].held
                /\ ~InList(current_requests', th[t].cur)
                /\ BackInCreatingPool(th[t].held)]_vars
    /\ [](\A t \in Threads :
            (/\ th[t].pc = "done"
             /\ th[t].op = "await"
             /\ th[t].was = "pending") =>
                /\ ~InList(current_requests, th[t].cur)
                /\ "release" \in th[t].eff
                /\ th[t].res \in {"ok", "connection", "attr"}
                /\ pool_alive[creating_pool[th[t].held]] =>
                        th[t].held \in available[creating_pool[th[t].held]])

\* a wait_for_result whose read raised ConnectionError has returned
C6_Witness ==
    /\ th[1].pc = "done"
    /\ th[1].op = "await"
    /\ th[1].was = "pending"
    /\ th[1].res = "connection"
    /\ "release" \in th[1].eff
    /\ th[1].held \in available[creating_pool[th[1].held]]

\* the router has no host for the routing argument of a command
Unroutable(key) == key = EmptyArgs \/ route[key] = None

\* C7: when the router has no host for a command, or the command carries no
\* routing argument, execute_command raises the routing error at once: no
\* connection is taken from any pool, nothing is sent or resent, and the
\* outstanding list and all other state stay as they were.  Only such
\* commands get the routing error.
C7_RoutingFailureChangesNothing ==
    /\ [][\A t \in Threads :
            (/\ th[t].pc = "idle"
             /\ th'[t].op = "exec"
             /\ Unroutable(th'[t].key)) =>
                /\ th'[t].pc = "done"
                /\ th'[t].res = "routing"
                /\ th'[t].conn = None
                /\ th'[t].sends = 0
                /\ th'[t].attempt = 0
                /\ current_requests' = current_requests
                /\ available' = available
                /\ nextConn' = nextConn
                /\ UNCHANGED shared]_vars
    /\ [][\A t \in Threads :
            (/\ th[t].pc = "idle"
             /\ th'[t].op = "exec"
             /\ ~Unroutable(th'[t].key)) => th'[t].pc = "send"]_vars
    /\ [](\A t \in Threads : th[t].res \in {"routing", "type"} =>
            th[t].res = "routing" /\ th[t].op = "exec" /\ th[t].sends = 0)

\* a command without a host was refused while another command was
\* outstanding and a connection was free
C7_Witness ==
    /\ th[1].pc = "done"
    /\ th[1].op = "exec"
    /\ th[1].res = "routing"
    /\ th[1].key = 3
    /\ current_requests # <<>>
    /\ \E h \in Hosts : available[h] # {}

\* the thread t made a step of its call
Stepped(t) == th'[t] # th[t]

\* C8: when the first send_command of an execute_command raises
\* ConnectionError, the connection is disconnected and the command is sent
\* again on the same connection, with no new acquisition, once: a resend
\* that succeeds goes on to admission and the result the call returns is
\* admitted after exactly two sends; a resend that fails ends the call with
\* ConnectionError; no call sends more than twice.
C8_RetriesSendOnce ==
    /\ [][\A t \in Threads :
            (th[t].pc = "send" /\ Stepped(t) /\ th'[t].pc # "admit") =>
                /\ th'[t].sends = th[t].sends + 1
                /\ th'[t].conn = th[t].conn
                /\ IF th[t].attempt = 1
                   THEN th'[t].pc = "retry" /\ th'[t].attempt = 1
                   ELSE /\ th'[t].pc = "done"
                        /\ th'[t].res = "connection"
                        /\ th'[t].sends = 2]_vars
    /\ [][\A t \in Threads :
            (th[t].pc = "retry" /\ Stepped(t)) =>
                /\ th'[t].pc = "send"
                /\ th'[t].attempt = 2
                /\ th'[t].conn = th[t].conn
                /\ th'[t].er = th[t].er
                /\ sock'[th[t].conn] = "none"
                /\ available' = available
                /\ nextConn' = nextConn
                /\ creating_pool' = creating_pool]_vars
    /\ [][\A t \in Threads :
            (th[t].pc = "send" /\ th[t].attempt = 2 /\ th'[t].pc = "admit") =>
                /\ th'[t].sends = 2
                /\ th'[t].conn = th[t].conn
                /\ Len(wire'[th[t].conn]) = Len(wire[th[t].conn]) + 1]_vars
    /\ [](\A t \in Threads :
            /\ th[t].sends <= 2
            /\ th[t].attempt <= 2
            /\ th[t].op = "exec" /\ th[t].why = "send" => th[t].sends >= 1
            /\ (/\ th[t].op = "exec"
                /\ th[t].pc = "done"
                /\ th[t].why = "send"
                /\ th[t].res = "ok") =>
                    /\ th[t].sends = 2
                    /\ InList(current_requests, th[t].er)
                    /\ er_connection[th[t].er] = th[t].conn)

\* the first send failed, the resend went through, the result is admitted
C8_Witness ==
    /\ th[1].pc = "done"
    /\ th[1].op = "exec"
    /\ th[1].why = "send"
    /\ th[1].res = "ok"
    /\ th[1].sends = 2
    /\ InList(current_requests, th[1].er)

\* the timeout of a wait_for_outstanding_responses call is used up
Exhausted(t) == th[t].remaining # NoTimeout /\ th[t].remaining <= 0

\* C9: wait_for_outstanding_responses goes on completing the outstanding
\* results that are ready until the outstanding list is empty or the
\* timeout is used up, and returns only then; without a timeout, when every
\* reply arrives, it returns with the list empty and every dispatched
\* command completed.
C9_WaitsForOutstanding ==
    /\ [](\A t \in Threads :
            (th[t].op = "waitall" /\ th[t].pc = "done") =>
                /\ th[t].res = "ok"
                /\ current_requests = <<>> \/ Exhausted(t))
    /\ [][\A t \in Threads :
            (/\ th[t].pc = "wa_check"
             /\ Stepped(t)
             /\ current_requests # <<>>
             /\ ~Exhausted(t)) =>
                /\ th'[t].pc # "done"
                /\ SelectReady(current_requests) # <<>> =>
                        /\ th'[t].pc = "w_read"
                        /\ th'[t].cur = Head(SelectReady(current_requests))
                        /\ th'[t].ready = Tail(SelectReady(current_requests))
                /\ SelectReady(current_requests) = <<>> => Exhausted(t)']_vars
    /\ \A t \in Threads :
            (th[t].op = "waitall" /\ th[t].remaining = NoTimeout) ~>
                /\ th[t].op = "waitall"
                /\ th[t].pc = "done"
                /\ current_requests = <<>>
                /\ \A e \in Cmds : life[e] \in {"new", "completed"}

\* two commands went to the pools of two hosts and a wait without timeout
\* has returned after completing both
C9_Witness ==
    /\ th[1].op = "waitall"
    /\ th[1].pc = "done"
    /\ th[1].remaining = NoTimeout
    /\ th[1].was = "pending"
    /\ max_concurrency = NoLimit
    /\ current_requests = <<>>
    /\ life[1] = "completed" /\ er_value[1] = 1
    /\ life[2] = "completed" /\ er_value[2] = 2
    /\ er_connection[1] # None /\ er_connection[2] # None
    /\ creating_pool[er_connection[1]] # creating_pool[er_connection[2]]

\* C10: a result leaves pending once, and the later of cancel and
\* wait_for_result on the same result does nothing: wait_for_result on a
\* cancelled result reads nothing, releases nothing and raises nothing;
\* cancel on a completed result disconnects nothing, releases nothing and
\* leaves the value as it was.
C10_LoserIsNoOp ==
    \A t \in Threads :
        /\ (th[t].op = "await" /\ th[t].was = "cancelled") =>
                /\ th[t].eff = {}
                /\ th[t].pc = "done" => th[t].res = "ok"
        /\ (th[t].op = "cancel" /\ th[t].was = "completed") =>
                /\ th[t].eff = {}
                /\ er_value[th[t].cur] = th[t].old
                /\ th[t].pc = "done" => th[t].res = "ok"

\* no call is in progress
Quiescent == \A t \in Threads : th[t].pc \in {"idle", "done"}

\* the pending results that hold the connection c
HeldBy(c) == {e \in Cmds : life[e] = "pending" /\ er_connection[e] = c}

\* C11: a connection has one owner.  Between calls, every connection of a
\* pool that still exists is either in that pool's free list or held by
\* exactly one pending result, never both; a result that was completed or
\* cancelled references no connection; and no call hands a connection to
\* RoutingPool.release for a result that was not pending when the call
\* started.
C11_OneOwner ==
    /\ Quiescent =>
            /\ \A c \in 1..(nextConn - 1) :
                    pool_alive[creating_pool[c]] =>
                        \/ /\ c \in available[creating_pool[c]]
                           /\ HeldBy(c) = {}
                        \/ /\ c \notin available[creating_pool[c]]
                           /\ Cardinality(HeldBy(c)) = 1
            /\ \A e \in Cmds :
                    life[e] \in {"completed", "cancelled"} =>
                        er_connection[e] = None
    /\ \A t \in Threads :
            (th[t].op \in {"await", "cancel"} /\ th[t].was # "pending") =>
                "release" \notin th[t].eff

\* C12: a ConnectionError raised while a reply is read is not followed by a
\* resend and reaches the caller.  In particular, when the drain inside
\* execute_command reads another result and that read raises
\* ConnectionError, the call ends with that error and the command being
\* dispatched has been sent once.
C12_ReadFailureNotRetried ==
    \A t \in Threads :
        (th[t].op = "exec" /\ th[t].why = "read") =>
            /\ th[t].pc = "done"
            /\ th[t].res = "connection"
            /\ th[t].sends = 1

\* C13: in every state, also in the middle of calls made by other threads,
\* the outstanding list holds no result twice, holds every pending result,
\* and every member is still pending and holds a connection with a socket,
\* so that its fileno() can be polled.
C13_ListWellFormed ==
    /\ \A i, j \in 1..Len(current_requests) :
            current_requests[i] = current_requests[j] => i = j
    /\ \A e \in Cmds : life[e] = "pending" => InList(current_requests, e)
    /\ \A i \in 1..Len(current_requests) :
            /\ life[current_requests[i]] = "pending"
            /\ ~FilenoRaises(current_requests[i])

\* C14: fileno() of a result raises ValueError exactly when the result is
\* no longer pending: between calls, it raises for every result that was
\* completed by wait_for_result or cancelled, and returns the socket's
\* descriptor for every pending one.
C14_FilenoRaisesWhenTerminal ==
    Quiescent =>
        \A e \in Cmds :
            /\ life[e] \in {"completed", "cancelled"} => FilenoRaises(e)
            /\ life[e] = "pending" => ~FilenoRaises(e)

\* C15: cancel_outstanding_requests works on the list as it was when the
\* call was made: it cancels no result that was not in the list then (one
\* admitted meanwhile by another thread stays outstanding), and when it
\* returns every result that was in the list then is off the list.
C15_CancelsSnapshot ==
    \A t \in Threads :
        th[t].op = "cancelall" =>
            /\ th[t].cur # None => InList(th[t].snap, th[t].cur)
            /\ (th[t].pc = "done" /\ th[t].res = "ok") =>
                    \A i \in 1..Len(th[t].snap) :
                        ~InList(current_requests, th[t].snap[i])

\* the thread u drains at the ceiling with the lock in its hands while
\* nothing in the list is or will become readable, and the thread t, which
\* has read the reply of a member, waits for the lock in
\* notify_request_done
LockedDrain(t, u) ==
    /\ t # u
    /\ th[t].op = "await"
    /\ th[t].pc = "w_notify"
    /\ InList(current_requests, th[t].cur)
    /\ routing_lock = u
    /\ th[u].op = "exec"
    /\ th[u].pc = "throttle"
    /\ AtCeiling
    /\ SelectReady(current_requests) = <<>>
    /\ \A i \in 1..Len(current_requests) :
            /\ ~FilenoRaises(current_requests[i])
            /\ wire[er_connection[current_requests[i]]] = <<>>

\* C16: a thread that drains at the ceiling and a thread that calls
\* wait_for_result on an outstanding result whose reply has arrived both
\* return: in no state does the second wait for the lock inside
\* notify_request_done while the first, holding the lock, selects on
\* sockets whose replies have all been consumed.
C16_NoLockedDrain == \A t, u \in Threads : ~LockedDrain(t, u)

\* C17: the connection an execute_command call acquired is, when the call
\* is over, either held by the result the call returned, which is in the
\* outstanding list, or, when the call ended with an exception, back in
\* the free list of the pool that made it (if that pool still exists).
C17_AcquiredHandleOwned ==
    \A t \in Threads :
        (th[t].op = "exec" /\ th[t].pc = "done" /\ th[t].conn # None) =>
            IF th[t].res = "ok"
            THEN /\ er_connection[th[t].er] = th[t].conn
                 /\ InList(current_requests, th[t].er)
            ELSE pool_alive[creating_pool[th[t].conn]] =>
                     th[t].conn \in available[creating_pool[th[t].conn]]

\* C18: cancel or wait_for_result on a pending result whose client is gone
\* raises the RuntimeError of the client property at once: the connection
\* is not disconnected, read or released, and the result and its
\* connection are as they were.
C18_GoneClientTouchesNothing ==
    \A t \in Threads :
        (/\ ~client_alive
         /\ th[t].op \in {"await", "cancel"}
         /\ th[t].was = "pending") =>
            /\ th[t].eff = {}
            /\ life[th[t].cur] = "pending"
            /\ er_connection[th[t].cur] = th[t].held
            /\ sock[th[t].held] = "open"
            /\ th[t].pc = "done" => th[t].res = "gone"

\* the thread t runs notify_request_done for the result it works on
Notifies(t) == th[t].pc \in {"w_notify", "c_notify"} /\ Stepped(t)

\* C19: notify_request_done(er) takes er off the outstanding list when it
\* is there and does nothing when it is not; the other entries stay, in
\* their order, and no connection is read, disconnected or released.
C19_NotifyRemovesOnlyThat ==
    [][\A t \in Threads :
         Notifies(t) =>
            /\ ~InList(current_requests', th[t].cur)
            /\ ListFilter(current_requests', Cmds \ {th[t].cur})
                 = ListFilter(current_requests, Cmds \ {th[t].cur})
            /\ Len(current_requests') =
                 IF InList(current_requests, th[t].cur)
                 THEN Len(current_requests) - 1
                 ELSE Len(current_requests)
            /\ ~InList(current_requests, th[t].cur) =>
                    current_requests' = current_requests
            /\ UNCHANGED <<sock, wire, inbox, available, creating_pool,
                           er_connection, er_value, life, routing_lock>>]_vars

\* notify_request_done has run for a result that was not in the list, which
\* held another result
C19_Witness ==
    /\ th[1].op = "await"
    /\ th[1].pc = "w_return"
    /\ th[1].was = "completed"
    /\ ~InList(current_requests, th[1].cur)
    /\ current_requests # <<>>

====
